---- MODULE Spec2Model ----
(***************************************************************************)
(* A model of rand_map (src/src/lib.rs): RandMap<V>, a HashMap keyed by a  *)
(* randomly drawn Handle<V> (a typed u64), with its iterators and its      *)
(* PartialEq.                                                              *)
(*                                                                         *)
(* The contained std HashMap is modelled by a function whose DOMAIN is the *)
(* set of keys; its iteration order, which std leaves unspecified, is a    *)
(* nondeterministic choice wherever the code iterates.                     *)
(***************************************************************************)
EXTENDS Integers, Sequences, FiniteSets, TLC

\* Handles are 0..MaxHandle (the u64 space, cut down), values 0..MaxVal.
MaxHandle == 1
MaxVal == 1
\* The longest list of (handle, value) pairs two maps are built from.
MaxPairs == 2

Handles == 0 .. MaxHandle
Values == 0 .. MaxVal

\* Option<T>
None == << >>
Some(x) == << x >>

\* The caller's in-place mutation of a value through a &mut V
\* (value.push_str("_more") in the doc test).
Mutate(v) == (v + 1) % (MaxVal + 1)

(***************************************************************************)
(* The methods of RandMap, as functions of the map they are called on.     *)
(***************************************************************************)

\* RandMap::new: Self(HashMap::default())
new == [h \in {} |-> 0]

\* clear that empties nothing
clear_nothing(m) == m

\* RandMap::clear: self.0.clear()
clear(m) == [h \in {} |-> 0]

\* RandMap::get: self.0.get(&handle)
get(m, handle) == IF handle \in DOMAIN m THEN Some(m[handle]) ELSE None

\* get_mut that makes the entry when there is none (entry().or_insert)
get_mut_or_insert(m, handle, w) ==
    [map |-> [h \in DOMAIN m \cup {handle} |-> IF h = handle THEN w ELSE m[h]],
     ret |-> IF handle \in DOMAIN m THEN Some(m[handle]) ELSE None]

\* RandMap::get_mut: self.0.get_mut(&handle); the reference, when there is
\* one, lets the caller write value w in place.
get_mut(m, handle, w) ==
    [map |-> IF handle \in DOMAIN m THEN [m EXCEPT ![handle] = w] ELSE m,
     ret |-> IF handle \in DOMAIN m THEN Some(m[handle]) ELSE None]

\* insert_key_value that keeps the value a present key has (entry().or_insert)
insert_key_value_keep(m, key, value) ==
    [h \in DOMAIN m \cup {key} |-> IF h \in DOMAIN m THEN m[h] ELSE value]

\* RandMap::insert_key_value: self.0.insert(key, value), the old value dropped
insert_key_value(m, key, value) ==
    [h \in DOMAIN m \cup {key} |-> IF h = key THEN value ELSE m[h]]

\* insert that hands back a handle drawn anew instead of the key it stored
insert_other_handle(m, key, value) ==
    [map |-> [h \in DOMAIN m \cup {key} |-> IF h = key THEN value ELSE m[h]],
     ret |-> (key + 1) % (MaxHandle + 1)]

\* RandMap::insert, with key the handle thread_rng().gen() drew
insert(m, key, value) ==
    [map |-> [h \in DOMAIN m \cup {key} |-> IF h = key THEN value ELSE m[h]],
     ret |-> key]

\* len that reports the capacity of the table (3 buckets once one is in use)
len_capacity(m) == IF DOMAIN m = {} THEN 0 ELSE Cardinality(DOMAIN m) + 3

\* RandMap::len: self.0.len()
len(m) == Cardinality(DOMAIN m)

\* remove that hands back the value and leaves the entry (get().cloned())
remove_keep(m, handle) ==
    [map |-> m,
     ret |-> IF handle \in DOMAIN m THEN Some(m[handle]) ELSE None]

\* remove that takes out every entry when it finds the handle
remove_drain(m, handle) ==
    [map |-> IF handle \in DOMAIN m THEN [h \in {} |-> 0] ELSE m,
     ret |-> IF handle \in DOMAIN m THEN Some(m[handle]) ELSE None]

\* RandMap::remove: self.0.remove(&handle)
remove(m, handle) ==
    [map |-> [h \in DOMAIN m \ {handle} |-> m[h]],
     ret |-> IF handle \in DOMAIN m THEN Some(m[handle]) ELSE None]

\* #[derive(Clone)]
clone(m) == [h \in DOMAIN m |-> m[h]]

\* The orders in which hash_map::Iter can walk the keys in set S.
Orders(S) ==
    {s \in [1 .. Cardinality(S) -> S] : \A i, j \in DOMAIN s : s[i] = s[j] => i = j}

\* next that pairs the key with the value of the entry of the least key
Iter_next_first(m, k) ==
    << k, m[CHOOSE j \in DOMAIN m : \A i \in DOMAIN m : j <= i] >>

\* Iter::next / IterMut::next on the entry the underlying iterator is at:
\* self.0.next().map(|(k, v)| (*k, v))
Iter_next(m, k) == << k, m[k] >>

\* Iterator::all over self.iter() walked in the given order, with the closure
\* of eq: |(key, val)| other.get(key).map_or(false, |v| *val == *v)
RECURSIVE all(_, _, _)
all(order, self, other) ==
    IF order = << >> THEN TRUE
    ELSE LET item == Iter_next(self, Head(order))
             found == get(other, item[1])
             ok == IF found = None THEN FALSE ELSE item[2] = found[1]
         IN  IF ok THEN all(Tail(order), self, other) ELSE FALSE

\* eq without the comparison of lengths
eq_no_len(self, other, order) == all(order, self, other)

\* PartialEq::eq, self iterated in the given order
eq(self, other, order) ==
    IF len(self) # len(other) THEN FALSE ELSE all(order, self, other)

\* new() followed by insert_key_value of each pair of the list, in order
RECURSIVE build(_)
build(pairs) ==
    IF pairs = << >> THEN new
    ELSE LET n == Len(pairs)
         IN  insert_key_value(build(SubSeq(pairs, 1, n - 1)), pairs[n][1], pairs[n][2])

(***************************************************************************)
(* State                                                                   *)
(***************************************************************************)
VARIABLES
    map,    \* the RandMap under test (its field 0)
    other,  \* a second RandMap, the right-hand side of ==
    rel,    \* how other was last made from map: "ops", "clone", "pairs", "agreeing"
    call,   \* the last call made and what it returned
    net,    \* calls on map that added an entry, minus calls that took one out
    it      \* the iterator borrowed from map, if any

vars == << map, other, rel, call, net, it >>

NoIter == [kind |-> "none", rest |-> {}, out |-> << >>, done |-> FALSE, start |-> new]

\* A call: its name, its handle and value (0 when it has none), what it
\* returned, and what map held at the handle when it was made (for clear,
\* how many entries map held).
Call(op, h, v, ret, old) == [op |-> op, h |-> h, v |-> v, ret |-> ret, old |-> old]

Init ==
    /\ map = new
    /\ other = new
    /\ rel = "ops"
    /\ call = Call("new", 0, 0, None, None)
    /\ net = 0
    /\ it = NoIter

\* No iterator holds a borrow of map.
Free == it.kind = "none"

(***************************************************************************)
(* The calls a program makes on map while no iterator borrows it.          *)
(***************************************************************************)

\* map.insert(value); key is what the random source produced.
Insert ==
    /\ Free
    /\ \E key \in Handles, value \in Values :
         LET r == insert(map, key, value)
         IN  /\ map' = r.map
             /\ call' = Call("insert", r.ret, value, Some(r.ret), get(map, r.ret))
             /\ net' = net + (IF key \in DOMAIN map THEN 0 ELSE 1)
    /\ rel' = "ops"
    /\ UNCHANGED << other, it >>

\* map.insert_key_value(key, value)
InsertKeyValue ==
    /\ Free
    /\ \E key \in Handles, value \in Values :
         /\ map' = insert_key_value(map, key, value)
         /\ call' = Call("insert_key_value", key, value, None, get(map, key))
         /\ net' = net + (IF key \in DOMAIN map THEN 0 ELSE 1)
    /\ rel' = "ops"
    /\ UNCHANGED << other, it >>

\* map.get(handle)
Get ==
    /\ Free
    /\ \E handle \in Handles :
         call' = Call("get", handle, 0, get(map, handle), get(map, handle))
    /\ UNCHANGED << map, other, rel, net, it >>

\* map.get_mut(handle), the caller writing w through the reference it gets
GetMut ==
    /\ Free
    /\ \E handle \in Handles, w \in Values :
         LET r == get_mut(map, handle, w)
         IN  /\ map' = r.map
             /\ call' = Call("get_mut", handle, w, r.ret, get(map, handle))
    /\ rel' = "ops"
    /\ UNCHANGED << other, net, it >>

\* map.remove(handle)
Remove ==
    /\ Free
    /\ \E handle \in Handles :
         LET r == remove(map, handle)
         IN  /\ map' = r.map
             /\ call' = Call("remove", handle, 0, r.ret, get(map, handle))
             /\ net' = net - (IF r.ret = None THEN 0 ELSE 1)
    /\ rel' = "ops"
    /\ UNCHANGED << other, it >>

\* map.clear(); the count of calls starts again, as for a map from new().
Clear ==
    /\ Free
    /\ map' = clear(map)
    /\ call' = Call("clear", 0, 0, None, Some(len(map)))
    /\ net' = 0
    /\ rel' = "ops"
    /\ UNCHANGED << other, it >>

\* map.len()
LenCall ==
    /\ Free
    /\ call' = Call("len", 0, 0, Some(len(map)), None)
    /\ UNCHANGED << map, other, rel, net, it >>

(***************************************************************************)
(* The second map and ==.                                                  *)
(***************************************************************************)

\* other = map.clone()
Clone ==
    /\ Free
    /\ other' = clone(map)
    /\ rel' = "clone"
    /\ call' = Call("clone", 0, 0, None, None)
    /\ UNCHANGED << map, net, it >>

\* other.insert_key_value(key, value)
OtherInsertKeyValue ==
    /\ Free
    /\ \E key \in Handles, value \in Values :
         /\ other' = insert_key_value(other, key, value)
         /\ call' = Call("other.insert_key_value", key, value, None, None)
    /\ rel' = "ops"
    /\ UNCHANGED << map, net, it >>

Pairs == Handles \X Values
PairLists == UNION {[1 .. n -> Pairs] : n \in 0 .. MaxPairs}
\* No handle of the list comes with two different values.
Agreeing(pairs) ==
    \A i, j \in DOMAIN pairs : pairs[i][1] = pairs[j][1] => pairs[i][2] = pairs[j][2]

\* On two maps as new() made them: insert_key_value of the same pairs into
\* each, other taking them in another order.
BuildBoth ==
    /\ Free
    /\ map = new
    /\ other = new
    /\ \E pairs \in PairLists :
         \E p \in Orders(DOMAIN pairs) :
           /\ map' = build(pairs)
           /\ other' = build([i \in DOMAIN pairs |-> pairs[p[i]]])
           /\ rel' = IF Agreeing(pairs) THEN "agreeing" ELSE "pairs"
           /\ net' = net + Cardinality({pairs[i][1] : i \in DOMAIN pairs})
    /\ call' = Call("build", 0, 0, None, None)
    /\ UNCHANGED it

\* map == other, other == map and map == map, each walking its left-hand
\* side in whatever order the HashMap iterates.
EqCall ==
    /\ Free
    /\ \E o1 \in Orders(DOMAIN map), o2 \in Orders(DOMAIN other) :
         call' = Call("eq", 0, 0,
                      << eq(map, other, o1), eq(other, map, o2), eq(map, map, o1) >>,
                      None)
    /\ UNCHANGED << map, other, rel, net, it >>

(***************************************************************************)
(* Iteration.  While the iterator lives it borrows map, so nothing else    *)
(* is called on map.                                                       *)
(***************************************************************************)

\* map.iter(): Iter(self.0.iter())
IterCall ==
    /\ Free
    /\ it' = [kind |-> "iter", rest |-> DOMAIN map, out |-> << >>, done |-> FALSE,
              start |-> map]
    /\ call' = Call("iter", 0, 0, None, None)
    /\ UNCHANGED << map, other, rel, net >>

\* map.iter_mut(): IterMut(self.0.iter_mut())
IterMutCall ==
    /\ Free
    /\ it' = [kind |-> "iter_mut", rest |-> DOMAIN map, out |-> << >>, done |-> FALSE,
              start |-> map]
    /\ call' = Call("iter_mut", 0, 0, None, None)
    /\ UNCHANGED << map, other, rel, net >>

\* Iter::next: the next entry of the underlying iterator, or None at its end
IterNext ==
    /\ it.kind = "iter"
    /\ ~it.done
    /\ \/ /\ it.rest = {}
          /\ it' = [it EXCEPT !.done = TRUE]
       \/ \E k \in it.rest :
            it' = [it EXCEPT !.rest = @ \ {k}, !.out = Append(@, Iter_next(map, k))]
    /\ UNCHANGED << map, other, rel, call, net >>

\* IterMut::next, the caller then mutating the value through the reference
IterMutNext ==
    /\ it.kind = "iter_mut"
    /\ ~it.done
    /\ \/ /\ it.rest = {}
          /\ it' = [it EXCEPT !.done = TRUE]
          /\ UNCHANGED << map, rel >>
       \/ \E k \in it.rest :
            LET item == Iter_next(map, k)
            IN  /\ it' = [it EXCEPT !.rest = @ \ {k}, !.out = Append(@, item)]
                /\ map' = [map EXCEPT ![item[1]] = Mutate(item[2])]
                /\ rel' = "ops"
    /\ UNCHANGED << other, call, net >>

\* The iterator is dropped, at its end or before.
IterDrop ==
    /\ ~Free
    /\ it' = NoIter
    /\ UNCHANGED << map, other, rel, call, net >>

Next ==
    \/ Insert
    \/ InsertKeyValue
    \/ Get
    \/ GetMut
    \/ Remove
    \/ Clear
    \/ LenCall
    \/ Clone
    \/ OtherInsertKeyValue
    \/ BuildBoth
    \/ EqCall
    \/ IterCall
    \/ IterMutCall
    \/ IterNext
    \/ IterMutNext
    \/ IterDrop

Spec == Init /\ [][Next]_vars

\* The programs that make only insert, insert_key_value, remove, get, get_mut
\* and len calls on a map from new().
NextCalls ==
    \/ Insert
    \/ InsertKeyValue
    \/ Remove
    \/ Get
    \/ GetMut
    \/ LenCall

SpecCalls == Init /\ [][NextCalls]_vars

(***************************************************************************)
(* Properties                                                              *)
(***************************************************************************)

\* The step is a call of the method op on map (no iterator before or after).
Did(op) == it.kind = "none" /\ it'.kind = "none" /\ call'.op = op

\* The handles at which get finds a value.
Present(m) == {h \in Handles : get(m, h) # None}

\* C1: under any sequence of insert, insert_key_value and remove calls on a
\* map from new(), len() is the number of insert and insert_key_value calls
\* that did not overwrite minus the number of remove calls that returned a
\* value, and it is the number of handles at which get finds a value.
C1_LenCountsCalls ==
    /\ len(map) = net
    /\ len(map) = Cardinality(Present(map))
    /\ (call.op = "len" => call.ret = Some(net))

\* C1 witness: a remove has returned a value and left an entry behind.
C1_Witness ==
    /\ call.op = "remove"
    /\ call.ret # None
    /\ net >= 1

\* C2: right after insert(v) returned handle h, get(h) is Some(v), whatever
\* handle the random source drew.
C2_InsertThenGet ==
    call.op = "insert" => get(map, call.ret[1]) = Some(call.v)

\* C2 witness: an insert whose handle collided with an entry holding another
\* value.
C2_Witness ==
    /\ call.op = "insert"
    /\ call.old # None
    /\ call.old # Some(call.v)

\* C3: remove(h) of a present handle returns the value stored at h at that
\* moment and leaves h absent; a handle that is absent stays absent, and get
\* says so, until an insert or insert_key_value stores under it.
C3_RemoveThenAbsent ==
    [][\A h \in Handles :
         /\ (Did("remove") /\ call'.h = h /\ get(map, h) # None)
               => (call'.ret = get(map, h) /\ get(map', h) = None)
         /\ (Did("get") /\ call'.h = h /\ get(map, h) = None)
               => call'.ret = None
         /\ (get(map, h) = None /\ get(map', h) # None)
               => \/ call'.op \in {"insert", "insert_key_value"} /\ call'.h = h
                  \/ call'.op = "build"]_vars

\* C3 witness: a remove returned the value of its handle while another entry
\* stayed.
C3_Witness ==
    /\ call.op = "remove"
    /\ call.ret # None
    /\ call.ret = call.old
    /\ len(map) >= 1

\* C4: clear() leaves len() 0 and every handle absent, the map being as new()
\* makes it; an insert or insert_key_value made next leaves exactly its one
\* entry.
C4_ClearEmpties ==
    [][/\ Did("clear")
            => /\ len(map') = 0
               /\ \A h \in Handles : get(map', h) = None
               /\ map' = new
       /\ (call.op = "clear" /\ (Did("insert") \/ Did("insert_key_value")))
            => /\ len(map') = 1
               /\ \A h \in Handles :
                    get(map', h) = IF h = call'.h THEN Some(call'.v) ELSE None]_vars

\* C4 witness: clear() was called on a map of two entries.
C4_Witness ==
    /\ call.op = "clear"
    /\ call.old = Some(2)
    /\ len(map) = 0

\* C5: storing v under a present handle h, by insert_key_value(h, v) or by an
\* insert(v) that drew h, leaves get(h) = Some(v), len() as it was and nothing
\* else changed, so that the old value at h is gone.
C5_OverwriteInPlace ==
    [][\A h \in Handles :
         ((Did("insert") \/ Did("insert_key_value")) /\ call'.h = h /\ get(map, h) # None)
            => /\ get(map', h) = Some(call'.v)
               /\ len(map') = len(map)
               /\ map' = [map EXCEPT ![h] = call'.v]]_vars

\* C5 witness: an insert_key_value replaced another value at its handle.
C5_Witness ==
    /\ call.op = "insert_key_value"
    /\ call.old # None
    /\ call.old # Some(call.v)
    /\ get(map, call.h) = Some(call.v)

\* Every (handle, value) pair of a has an equal value at the handle in b.
Within(a, b) == \A h \in Handles : get(a, h) # None => get(b, h) = get(a, h)

\* What C6 says of an == evaluated both ways round, apart from maps built
\* from lists of pairs.
EqAsSets ==
    LET ab == call.ret[1]
        ba == call.ret[2]
        aa == call.ret[3]
    IN  /\ ab <=> (len(map) = len(other) /\ Within(map, other))
        /\ ab <=> (len(map) = len(other) /\ Within(other, map))
        /\ ab <=> (\A h \in Handles : get(map, h) = get(other, h))
        /\ ab <=> ba
        /\ aa
        /\ rel = "clone" => ab

\* C6 as stated: a == b iff the lengths are equal and every pair of one has an
\* equal value at the same handle in the other; == is symmetric, a map equals
\* itself and its clone, and two maps built by insert_key_value from the same
\* pairs in different orders are equal.
C6_AsStated ==
    call.op = "eq" => (EqAsSets /\ (rel \in {"pairs", "agreeing"} => call.ret[1]))

\* C6 amended: the same, the two maps built from the same pairs being equal
\* when no handle comes with two different values in the list.
C6_EqIsSetEquality ==
    call.op = "eq" => (EqAsSets /\ (rel = "agreeing" => call.ret[1]))

\* C6 witness: == found equal two maps of two entries built in different orders.
C6_Witness ==
    /\ call.op = "eq"
    /\ rel = "agreeing"
    /\ len(map) = 2
    /\ call.ret[1]

\* C8: get, get_mut and remove of an absent handle return None and leave the
\* map as it was.
C8_AbsentIsNone ==
    [][\A h \in Handles :
         ((Did("get") \/ Did("get_mut") \/ Did("remove")) /\ call'.h = h /\ get(map, h) = None)
            => /\ call'.ret = None
               /\ map' = map
               /\ len(map') = len(map)
               /\ \A k \in Handles : get(map', k) = get(map, k)]_vars

\* C8 witness: get_mut found nothing at its handle in a map that has an entry.
C8_Witness ==
    /\ call.op = "get_mut"
    /\ call.old = None
    /\ call.ret = None
    /\ len(map) >= 1

\* C9: a pass of iter() or iter_mut() that reached its end yielded len()
\* pairs, no handle twice and every present handle; each pair (h, v) of iter()
\* has get(h) = Some(v); iter_mut() yielded each value as it was stored when
\* the pass began, the map now holds that value mutated once, and it holds
\* the handles it held.
C9_PassYieldsEachOnce ==
    it.done =>
        LET out == it.out
        IN  /\ it.rest = {}
            /\ Len(out) = len(map)
            /\ \A i, j \in DOMAIN out : out[i][1] = out[j][1] => i = j
            /\ {out[i][1] : i \in DOMAIN out} = Present(map)
            /\ it.kind = "iter"
                 => \A i \in DOMAIN out : get(map, out[i][1]) = Some(out[i][2])
            /\ it.kind = "iter_mut"
                 => /\ \A i \in DOMAIN out :
                         /\ get(it.start, out[i][1]) = Some(out[i][2])
                         /\ get(map, out[i][1]) = Some(Mutate(out[i][2]))
                    /\ Present(map) = Present(it.start)

\* C9 witness: a pass of iter_mut() over a map of two entries reached its end.
C9_Witness ==
    /\ it.done
    /\ it.kind = "iter_mut"
    /\ Len(it.out) = 2

\* C10: insert, insert_key_value, remove and get_mut change nothing but the
\* entry at their handle; get, len, iter and == leave the map as it is.
C10_Frame ==
    [][/\ (Did("insert") \/ Did("insert_key_value") \/ Did("remove") \/ Did("get_mut"))
            => \A k \in Handles : k # call'.h => get(map', k) = get(map, k)
       /\ (Did("get") \/ Did("len") \/ Did("eq"))
            => (map' = map /\ other' = other)
       /\ (it.kind = "iter" \/ it'.kind = "iter")
            => map' = map]_vars

\* C10 witness: a remove took its entry out of a map and another entry stayed.
C10_Witness ==
    /\ call.op = "remove"
    /\ call.old # None
    /\ \E k \in Handles : k # call.h /\ get(map, k) # None

====
